---- MODULE Spec2Model ----
(***************************************************************************)
(* Model of the OpenTrickler RP2040 controller core:                       *)
(*   - the servo gate motion controller (command submission, one-slot      *)
(*     command queue, ramp engine, motion-ready semaphore), in the two     *)
(*     versions the repository carries (ratio commands with a DISABLED     *)
(*     sentinel, and state-or-ratio commands);                             *)
(*   - the scale acquisition framework (read-loops with their frame        *)
(*     buffers, decode rules, measurement mailbox, serial write mutex).    *)
(*                                                                         *)
(* Fixed-point conventions (floats of the source):                         *)
(*   ratios      : integer units of 0.0001   (RatioOne = 1.0)              *)
(*   speeds      : integer units of 0.0001                                 *)
(*   duty cycles : integer units of 0.0001   (DutyOne = 1.0)               *)
(*   timer       : microseconds, 32 bit wide; a timer value is the pair    *)
(*                 <<high half, low half>> of its two 16-bit halves        *)
(***************************************************************************)
EXTENDS Integers, Sequences, FiniteSets, TLC

\* ------------------------------------------------------------------ bounds
NumSubmitters == 2          \* tasks that call servo_gate_set_ratio / _set_state
MaxCmds == 3                \* gate commands submitted in one behaviour
MaxRampWrites == 4          \* interpolated writes of one ramp

Submitters == 1..NumSubmitters

\* ------------------------------------------------ constants of the program
RatioOne == 10000           \* 1.0f
DutyOne == 10000            \* 1.0f as a duty-cycle fraction
Epsilon == 1                \* 0.0001f
OpenThreshold == 1          \* 0.0001f  (new_open_ratio <= 0.0001f)
CloseThreshold == 9999      \* 0.9999f  (new_open_ratio >= 0.9999f)
MinSpeed == 1               \* 0.0001f  (speed clamp)
MinRampTimeUs == 1000       \* ramp_time_us < 1000 => single write
HalfModulus == 65536        \* 2^16: time_us_32() is a uint32_t, kept as two halves
MaxInt == 2147483647        \* largest elapsed time the model computes with
MaxPercent == 100           \* whole multiples of the ramp time are capped here
UNKNOWN_RATIO == -20000     \* -2.0f, ratio controller
NO_RATIO == -10000          \* -1.0f, initial prev_open_ratio of the state controller
SERVO_GATE_RATIO_DISABLED == -10000   \* sentinel, outside [0, 1]
SERVO_GATE_RATIO_OPEN == 0
SERVO_GATE_RATIO_CLOSED == 10000
\* variant of QueueLength: a queue of two slots
QueueLength_Two == 1 + 1
QueueLength == 1            \* xQueueCreate(1, sizeof(servo_gate_cmd_t))
PwmFullScaleLevel == 65535  \* _pwm_full_scale_level

GATE_DISABLED == 0
GATE_CLOSE == 1
GATE_OPEN == 2
GateStates == {GATE_DISABLED, GATE_CLOSE, GATE_OPEN}

\* default_eeprom_servo_gate_config
Shutter0CloseDutyCycle == 900
Shutter0OpenDutyCycle == 500
Shutter1CloseDutyCycle == 500
Shutter1OpenDutyCycle == 900
DefaultOpenSpeed == 50000   \* 5.0f
DefaultCloseSpeed == 30000  \* 3.0f

\* ------------------------------------------------------------------ inputs
\* ratios a caller may pass (12000 = 1.2f is clamped, the sentinel disables)
\* (1 = 0.0001f, the largest change that is skipped;
\*  2 = a move short enough to be instantaneous)
RatioInputs == {0, 1, 2, 5000, 12000, SERVO_GATE_RATIO_DISABLED}
\* ratios passed when several tasks submit concurrently
ConcurrentRatios == {0, 12000, SERVO_GATE_RATIO_DISABLED}
\* timer values at which a ramp may start (the second one makes
\* start_time + ramp_time_us wrap for the longer ramps)
StartTimes == {<<0, 1000>>, <<65534, 64240>>}     \* 1000 and 4294900000
\* timer value of the ramps when several tasks submit concurrently
ConcurrentTimes == {<<0, 1000>>}
\* speeds a stored configuration may hold: the defaults, zero, a negative value
OpenSpeedInputs == {DefaultOpenSpeed, 0, -10000}
CloseSpeedInputs == {DefaultCloseSpeed, 0, -10000}
\* ratios passed while the speeds vary
SpeedRatios == {0, 5000, 12000}

VARIABLES
    variant,            \* "ratio": src/unnamed/part_000, "state": src/src/servo_gate.c
    servo_gate_enable,  \* eeprom_servo_gate_config.servo_gate_enable
    open_speed,         \* eeprom_servo_gate_config.shutter_open_speed_pct_s
    close_speed,        \* eeprom_servo_gate_config.shutter_close_speed_pct_s
    gate_state,         \* servo_gate.gate_state
    control_queue,      \* servo_gate.control_queue
    move_ready,         \* servo_gate.move_ready_semphore (binary: 0 or 1)
    pwm_cc,             \* PWM compare register: <<shutter0 level, shutter1 level>>
    sub_pc,             \* position of each submitter
    sub_cmd,            \* the command each submitter builds
    sub_block,          \* the block_wait argument of each submitter
    ctl_pc,             \* position of servo_gate_control_task
    cmd,                \* control task: the received command
    prev_open_ratio,    \* control task local
    new_open_ratio,     \* control task local
    delta,              \* control task local
    speed,              \* control task local
    ramp_time_us,       \* control task local
    start_time,         \* control task local
    stop_time,          \* control task local
    current_time,       \* control task local (last timer read)
    \* history variables (not program state)
    enq_count,          \* commands enqueued so far; a command's id is its rank
    done_count,         \* commands whose ready signal has been given
    cur_id,             \* id of the command the control task holds (0: none yet)
    gives,              \* xSemaphoreGive calls since the last dequeue
    cmd_writes,         \* ratios written to hardware for the held command
    write_owner,        \* id of the command the latest hardware write belongs to
    last_write,         \* ratio of the latest hardware write (NoTarget: none yet)
    last_target,        \* target of the latest completed command that is not DISABLED
    path,               \* path the held command takes through the control task
    sub_id,             \* id of the command a waiting submitter enqueued
    \* ---- scale acquisition
    scale_handle,       \* scale_config.scale_handle: the active driver descriptor
    current_scale_measurement,  \* scale_config.current_scale_measurement
    scale_measurement_ready,    \* scale_config.scale_measurement_ready (binary)
    rd_pc,              \* position of the read-loop task
    rx_buffer,          \* generic read-loop: rx_buffer[0 .. rx_buffer_idx - 1]
    rx_buffer_idx,      \* generic read-loop: write cursor
    buf_buffer,         \* Sartorius read-loop: buf.buffer[0 .. buf.index - 1]
    buf_index,          \* Sartorius read-loop: buf.index
    con_pc,             \* position of each caller of scale_block_wait_for_next_measurement
    con_block_time,     \* its block_time_ms argument
    con_result,         \* its return value
    con_out,            \* the caller's *current_measurement
    \* history variables of the scale part
    frame,              \* bytes received since the previous terminator
    decode_called,      \* the latest byte was a terminator and decode ran on it
    complete,           \* when decode_called: the complete frame that ended
    decoded,            \* when decode_called: the span handed to decode
    last_store_idx,     \* highest buffer index the latest byte stored to (-1: none)
    gives_since_take,   \* measurement gives since the last successful take
    last_given,         \* value of the latest completed publish
    covered,            \* per caller: gives its latest take covered, 0 once a
                        \* newer measurement was stored
    fresh,              \* per caller: a measurement was stored since the caller
                        \* last read the stored measurement
    \* ---- scale_write
    scheduler_state,    \* xTaskGetSchedulerState()
    write_mutex,        \* scale_serial_write_access_mutex: 0 free, else the holder
    wr_pc,              \* position of each caller of scale_write
    wr_sched,           \* its local scheduler_state
    wr_left,            \* bytes uart_write_blocking still has to send
    \* ---- scale configuration
    scale_driver,       \* scale_config.persistent_config.scale_driver
    scale_baudrate,     \* scale_config.persistent_config.scale_baudrate
    scale_uart_format,  \* scale_config.persistent_config.scale_uart_format
    uart_baudrate,      \* baud rate last handed to the UART
    uart_data_bits,     \* data bits last handed to the UART
    zero_outcome        \* outcome of the latest http_rest_scale_action request

gateVars == <<variant, servo_gate_enable, open_speed, close_speed, gate_state,
              control_queue, move_ready, pwm_cc, sub_pc, sub_cmd, sub_block,
              ctl_pc, cmd, prev_open_ratio, new_open_ratio, delta, speed,
              ramp_time_us, start_time, stop_time, current_time,
              enq_count, done_count, cur_id, gives, cmd_writes, write_owner,
              last_write, last_target, path, sub_id>>

scaleVars == <<scale_handle, current_scale_measurement, scale_measurement_ready,
               rd_pc, rx_buffer, rx_buffer_idx, buf_buffer, buf_index,
               con_pc, con_block_time, con_result, con_out,
               frame, decode_called, complete, decoded, last_store_idx,
               gives_since_take, last_given, covered,
               fresh>>

writeVars == <<scheduler_state, write_mutex, wr_pc, wr_sched, wr_left>>

confVars == <<scale_driver, scale_baudrate, scale_uart_format, uart_baudrate,
              uart_data_bits, zero_outcome>>

vars == <<gateVars, scaleVars, writeVars, confVars>>

\* ----------------------------------------------------------------- helpers
Abs(x) == IF x < 0 THEN -x ELSE x

\* C float-to-integer and float division results, truncated toward zero
TruncDiv(a, b) == IF a >= 0 THEN a \div b ELSE -((-a) \div b)

\* uint32_t arithmetic on <<high, low>> pairs
Add32(t, n) ==
    LET l == t[2] + (n % HalfModulus)
        h == t[1] + (n \div HalfModulus) + (l \div HalfModulus)
    IN <<h % HalfModulus, l % HalfModulus>>

Sub32(a, b) ==
    LET l == a[2] - b[2]
        h == a[1] - b[1] - (IF l < 0 THEN 1 ELSE 0)
    IN <<(h + HalfModulus) % HalfModulus, (l + HalfModulus) % HalfModulus>>

Gt32(a, b) == a[1] > b[1] \/ (a[1] = b[1] /\ a[2] > b[2])

\* a uint32_t as an integer, capped at MaxInt
ToInt(t) == IF t[1] >= HalfModulus \div 2 THEN MaxInt ELSE t[1] * HalfModulus + t[2]

clamp01(x) == IF x < 0 THEN 0 ELSE IF x > RatioOne THEN RatioOne ELSE x

\* one shutter's duty cycle, open + (close - open) * ratio, in units of 0.00001
DutyFraction(open_dc, close_dc, open_ratio) ==
    open_dc * 10 + TruncDiv((close_dc - open_dc) * open_ratio, 1000)

\* the uint16_t levels a shutter may get: _pwm_full_scale_level * duty cycle;
\* a product outside the uint16_t range has no defined conversion
ShutterLevels(open_dc, close_dc, open_ratio) ==
    LET f == DutyFraction(open_dc, close_dc, open_ratio)
    IN IF f >= 0 /\ f <= 10 * DutyOne
       THEN {(PwmFullScaleLevel * f) \div (10 * DutyOne)}
       ELSE {0, PwmFullScaleLevel}

\* _servo_gate_set_current_state: the register values <<shutter0, shutter1>>
\* that one call may write
DutyCycles(open_ratio) ==
    ShutterLevels(Shutter0OpenDutyCycle, Shutter0CloseDutyCycle, open_ratio)
    \X ShutterLevels(Shutter1OpenDutyCycle, Shutter1CloseDutyCycle, open_ratio)

NoTarget == -1              \* history: no command with a target has completed

\* servo_gate_cmd_t: the fields the control task reads, and the history field
\* id (the rank of the command in the order of enqueueing)
NoCmd == [is_ratio |-> TRUE, state |-> GATE_DISABLED, ratio |-> 0, id |-> 0]

\* servo_gate_cmd_t built by servo_gate_set_ratio of the ratio controller
RatioCmd(ratio) ==
    [is_ratio |-> TRUE, state |-> GATE_DISABLED,
     ratio |-> IF ratio = SERVO_GATE_RATIO_DISABLED
               THEN SERVO_GATE_RATIO_DISABLED ELSE clamp01(ratio),
     id |-> 0]

\* servo_gate_cmd_t built by servo_gate_set_ratio of the state controller
StateRatioCmd(ratio) ==
    [is_ratio |-> TRUE, state |-> GATE_DISABLED, ratio |-> clamp01(ratio), id |-> 0]

\* servo_gate_cmd_t built by servo_gate_set_state
StateCmd(state) ==
    [is_ratio |-> FALSE, state |-> state, ratio |-> 0, id |-> 0]


\* fabsf(delta / speed) * 1e6f converted to uint32_t
\* (computed in two steps of 1000 to stay within the model's integers)
RampTimeUs(d, sp) ==
    LET t == Abs(d) * 1000
    IN (t \div sp) * 1000 + ((t % sp) * 1000) \div sp

\* largest whole number of milliseconds whose microseconds fit a uint32_t
MaxUint32Ms == 4294967
\* largest whole number of milliseconds whose microseconds fit the model's integers
MaxIntMs == 2147483

\* fabsf(delta / speed) * 1e6f in whole milliseconds
RampTimeMs(d, sp) == (Abs(d) * 1000) \div sp

\* the values (uint32_t)(fabsf(delta / speed) * 1e6f) may take: the conversion
\* of a float that exceeds the range of uint32_t is undefined (0, a small
\* duration and the saturated value stand for its outcomes); a duration the
\* model's integers cannot hold is kept as MaxInt
RampTimes(d, sp) ==
    IF RampTimeMs(d, sp) > MaxUint32Ms THEN {0, MinRampTimeUs, MaxInt}
    ELSE IF RampTimeMs(d, sp) > MaxIntMs THEN {MaxInt}
    ELSE {RampTimeUs(d, sp)}

\* time that may pass between two reads of time_us_32() inside a ramp
TickSteps(rt) == {rt \div 2, rt}

\* ------------------------------------------------------------ gate: Init
NoTime == <<0, 0>>

\* servo_gate_config_init and servo_gate_init, then the entry of the control
\* task, with the speeds that load_config found in the stored configuration
GateBoot(open_speeds, close_speeds) ==
    /\ variant \in {"ratio", "state"}
    /\ servo_gate_enable \in BOOLEAN
    /\ open_speed \in open_speeds
    /\ close_speed \in close_speeds
    /\ gate_state = IF servo_gate_enable THEN GATE_OPEN ELSE GATE_DISABLED
    /\ control_queue = <<>>
    /\ move_ready = 0
    /\ pwm_cc = <<0, 0>>
    /\ sub_pc = [s \in Submitters |-> "idle"]
    /\ sub_cmd = [s \in Submitters |-> NoCmd]
    /\ sub_block = [s \in Submitters |-> FALSE]
    /\ ctl_pc = "receive"
    /\ cmd = NoCmd
    /\ prev_open_ratio = IF variant = "ratio" THEN UNKNOWN_RATIO ELSE NO_RATIO
    /\ new_open_ratio = 0
    /\ delta = 0
    /\ speed = 0
    /\ ramp_time_us = 0
    /\ start_time = NoTime
    /\ stop_time = NoTime
    /\ current_time = NoTime
    /\ enq_count = 0
    /\ done_count = 0
    /\ cur_id = 0
    /\ gives = 0
    /\ cmd_writes = <<>>
    /\ write_owner = 0
    /\ last_write = NoTarget
    /\ last_target = NoTarget
    /\ path = "none"
    /\ sub_id = [s \in Submitters |-> 0]

\* the boot with the speeds of default_eeprom_servo_gate_config
GateInit == GateBoot({DefaultOpenSpeed}, {DefaultCloseSpeed})

\* the configuration, and the scale part that no gate action touches
cfgVars == <<variant, servo_gate_enable, open_speed, close_speed, scaleVars, writeVars,
            confVars>>
subVars == <<sub_pc, sub_cmd, sub_block, sub_id>>
rampVars == <<delta, speed, ramp_time_us, start_time, stop_time, current_time>>
hwVars == <<pwm_cc, cmd_writes, write_owner, last_write>>

\* ------------------------------------------------- gate: command submission
\* calls entered and not yet enqueued
Entered == Cardinality({s \in Submitters : sub_pc[s] = "send"})

\* entry of a submission: xSemaphoreTake(move_ready_semphore, 0) clears a
\* stale ready signal without blocking, then the command is built
SubmitEnter(s, c, block_wait) ==
    /\ sub_pc[s] = "idle"
    /\ enq_count + Entered < MaxCmds
    /\ move_ready' = 0
    /\ sub_cmd' = [sub_cmd EXCEPT ![s] = c]
    /\ sub_block' = [sub_block EXCEPT ![s] = block_wait]
    /\ sub_pc' = [sub_pc EXCEPT ![s] = "send"]
    /\ UNCHANGED <<cfgVars, gate_state, control_queue, hwVars, sub_id,
                   ctl_pc, cmd, prev_open_ratio, new_open_ratio, rampVars,
                   enq_count, done_count, cur_id, gives, last_target, path>>

\* servo_gate_set_ratio of the ratio controller, up to the queue send
servo_gate_set_ratio(s, ratio, block_wait) ==
    /\ variant = "ratio"
    /\ SubmitEnter(s, RatioCmd(ratio), block_wait)

\* servo_gate_set_ratio of the state controller, up to the queue send
servo_gate_set_ratio_state(s, ratio, block_wait) ==
    /\ variant = "state"
    /\ SubmitEnter(s, StateRatioCmd(ratio), block_wait)

\* servo_gate_set_state, up to the queue send
servo_gate_set_state(s, state, block_wait) ==
    /\ variant = "state"
    /\ SubmitEnter(s, StateCmd(state), block_wait)

\* xQueueSend(servo_gate.control_queue, &cmd, portMAX_DELAY) and the test of
\* block_wait: a caller that does not wait returns
SubmitSend(s) ==
    /\ sub_pc[s] = "send"
    /\ Len(control_queue) < QueueLength
    /\ control_queue' = Append(control_queue, [sub_cmd[s] EXCEPT !.id = enq_count + 1])
    /\ sub_cmd' = [sub_cmd EXCEPT ![s] = NoCmd]
    /\ sub_id' = [sub_id EXCEPT ![s] = IF sub_block[s] THEN enq_count + 1 ELSE 0]
    /\ sub_block' = [sub_block EXCEPT ![s] = FALSE]
    /\ enq_count' = enq_count + 1
    /\ sub_pc' = [sub_pc EXCEPT ![s] = IF sub_block[s] THEN "wait" ELSE "idle"]
    /\ UNCHANGED <<cfgVars, gate_state, move_ready, hwVars,
                   ctl_pc, cmd, prev_open_ratio, new_open_ratio, rampVars,
                   done_count, cur_id, gives, last_target, path>>

\* xSemaphoreTake(servo_gate.move_ready_semphore, portMAX_DELAY) and the return
SubmitWait(s) ==
    /\ sub_pc[s] = "wait"
    /\ move_ready = 1
    /\ move_ready' = 0
    /\ sub_id' = [sub_id EXCEPT ![s] = 0]
    /\ sub_pc' = [sub_pc EXCEPT ![s] = "idle"]
    /\ UNCHANGED <<cfgVars, gate_state, control_queue, hwVars, sub_cmd, sub_block,
                   ctl_pc, cmd, prev_open_ratio, new_open_ratio, rampVars,
                   enq_count, done_count, cur_id, gives, last_target, path>>

\* ------------------------------------------------------ gate: control task
\* _servo_gate_set_current_state(open_ratio) followed by _set_duty_cycle
SetCurrentState(open_ratio) ==
    /\ pwm_cc' \in DutyCycles(open_ratio)
    /\ cmd_writes' = Append(cmd_writes, open_ratio)
    /\ write_owner' = cur_id
    /\ last_write' = open_ratio

NoWrite == UNCHANGED hwVars

\* the locals of the ramp block leave scope
RampScopeExit ==
    /\ delta' = 0
    /\ speed' = 0
    /\ ramp_time_us' = 0
    /\ start_time' = NoTime
    /\ stop_time' = NoTime
    /\ current_time' = NoTime

\* the locals of the loop body leave scope at the end of an iteration
LoopScopeExit ==
    /\ cmd' = NoCmd
    /\ new_open_ratio' = 0

\* position after the move: the ratio controller updates its state and then
\* signals, the state controller signals and then updates
AfterMove == IF variant = "ratio" THEN "update" ELSE "give"

\* xQueueReceive(servo_gate.control_queue, &cmd, portMAX_DELAY)
CtlReceive ==
    /\ ctl_pc = "receive"
    /\ control_queue # <<>>
    /\ cmd' = Head(control_queue)
    /\ control_queue' = Tail(control_queue)
    /\ ctl_pc' = "decide"
    /\ cur_id' = Head(control_queue).id
    /\ gives' = 0
    /\ cmd_writes' = <<>>
    /\ path' = "none"
    /\ UNCHANGED <<cfgVars, gate_state, move_ready, pwm_cc, write_owner, last_write,
                   subVars, prev_open_ratio, new_open_ratio, rampVars,
                   enq_count, done_count, last_target>>

\* variant of NeedsMove: any change at all is a move
NeedsMove_AnyChange(target, prev) == target # prev

\* fabsf(new_open_ratio - prev_open_ratio) > 0.0001f
NeedsMove(target, prev) == Abs(target - prev) > Epsilon

\* the move from a known previous ratio: skip, single write, or ramp start
RampOrSkip(target, t) ==
    IF NeedsMove(target, prev_open_ratio)
    THEN LET d == target - prev_open_ratio
             sel == IF d < 0 THEN open_speed ELSE close_speed
             sp == IF sel < MinSpeed THEN MinSpeed ELSE sel
         IN \E rt \in RampTimes(d, sp) :
            IF rt < MinRampTimeUs
            THEN /\ SetCurrentState(target)
                 /\ ctl_pc' = AfterMove
                 /\ path' = "instant"
                 /\ RampScopeExit
            ELSE /\ delta' = d
                 /\ speed' = sp
                 /\ ramp_time_us' = rt
                 /\ start_time' = t
                 /\ stop_time' = Add32(t, rt)
                 /\ current_time' = t
                 /\ NoWrite
                 /\ ctl_pc' = "ramp"
                 /\ path' = "ramped"
    ELSE /\ NoWrite
         /\ ctl_pc' = AfterMove
         /\ path' = "skipped"
         /\ UNCHANGED rampVars

\* variant of CtlDisable: the discrete state is left as it was
CtlDisable_KeepsState ==
    /\ ctl_pc' = "give_ack"
    /\ path' = "disabled"
    /\ NoWrite
    /\ UNCHANGED <<gate_state, prev_open_ratio, new_open_ratio, rampVars>>

\* variant of CtlDisable: the previous ratio is reset to fully open
CtlDisable_ResetsRatio ==
    /\ gate_state' = GATE_DISABLED
    /\ prev_open_ratio' = 0
    /\ ctl_pc' = "give_ack"
    /\ path' = "disabled"
    /\ NoWrite
    /\ UNCHANGED <<new_open_ratio, rampVars>>

\* ratio controller, DISABLED command: only the discrete state changes
CtlDisable ==
    /\ gate_state' = GATE_DISABLED
    /\ ctl_pc' = "give_ack"
    /\ path' = "disabled"
    /\ NoWrite
    /\ UNCHANGED <<prev_open_ratio, new_open_ratio, rampVars>>

\* variant of IsUnknown: no previous ratio counts as unknown
IsUnknown_Never(prev) == FALSE

\* prev_open_ratio == UNKNOWN_RATIO
IsUnknown(prev) == prev = UNKNOWN_RATIO

\* ratio controller: from the DISABLED test to the start of the move;
\* t is the value time_us_32() returns if a ramp starts
CtlDecide(t) ==
    /\ ctl_pc = "decide"
    /\ variant = "ratio"
    /\ IF cmd.ratio = SERVO_GATE_RATIO_DISABLED
       THEN CtlDisable
       ELSE /\ new_open_ratio' = clamp01(cmd.ratio)
            /\ UNCHANGED <<gate_state, prev_open_ratio>>
            /\ IF IsUnknown(prev_open_ratio)
               THEN /\ SetCurrentState(clamp01(cmd.ratio))
                    /\ ctl_pc' = AfterMove
                    /\ path' = "first"
                    /\ UNCHANGED rampVars
               ELSE RampOrSkip(clamp01(cmd.ratio), t)
    /\ UNCHANGED <<cfgVars, control_queue, move_ready, subVars, cmd,
                   enq_count, done_count, cur_id, gives, last_target>>

\* state controller: target ratio of a command
TargetRatio(c, prev) ==
    IF c.is_ratio THEN clamp01(c.ratio)
    ELSE IF c.state = GATE_OPEN THEN 0
    ELSE IF c.state = GATE_CLOSE THEN RatioOne
    ELSE prev

\* state controller: from the target selection to the start of the move;
\* t is the value time_us_32() returns if a ramp starts
CtlDecideState(t) ==
    /\ ctl_pc = "decide"
    /\ variant = "state"
    /\ LET target == TargetRatio(cmd, prev_open_ratio)
       IN /\ new_open_ratio' = target
          /\ IF prev_open_ratio < 0
             THEN IF target < 0
                  THEN /\ ctl_pc' = "give_ack"
                       /\ path' = "ack"
                       /\ NoWrite
                       /\ UNCHANGED rampVars
                  ELSE /\ SetCurrentState(target)
                       /\ ctl_pc' = AfterMove
                       /\ path' = "first"
                       /\ UNCHANGED rampVars
             ELSE RampOrSkip(target, t)
    /\ UNCHANGED <<cfgVars, gate_state, control_queue, move_ready, subVars, cmd,
                   prev_open_ratio, enq_count, done_count, cur_id, gives, last_target>>

\* (current_time - start_time) / (float) ramp_time_us, in units of 0.001
Percentage(now) ==
    LET e == ToInt(Sub32(now, start_time))
        q == e \div ramp_time_us
        r == e % ramp_time_us
        k == IF ramp_time_us > 2000000 THEN 1024 ELSE 1
    IN (IF q > MaxPercent THEN MaxPercent ELSE q) * 1000
       + ((r \div k) * 1000) \div (ramp_time_us \div k)

\* variant of Interpolate: the start of the move is left out
Interpolate_NoStart(now) == TruncDiv(delta * Percentage(now), 1000)

\* prev_open_ratio + delta * percentage
Interpolate(now) == prev_open_ratio + TruncDiv(delta * Percentage(now), 1000)

\* one iteration of the interpolation loop; step is the time that passed
\* since the previous read of time_us_32()
CtlRampStep(step) ==
    /\ ctl_pc = "ramp"
    /\ Len(cmd_writes) < MaxRampWrites
    /\ LET now == Add32(current_time, step)
          IN /\ current_time' = now
             /\ IF Gt32(now, stop_time)
                THEN /\ ctl_pc' = "ramp_final"
                     /\ NoWrite
                ELSE /\ ctl_pc' = "ramp"
                     /\ SetCurrentState(Interpolate(now))
    /\ UNCHANGED <<cfgVars, gate_state, control_queue, move_ready, subVars, cmd,
                   prev_open_ratio, new_open_ratio, delta, speed, ramp_time_us,
                   start_time, stop_time,
                   enq_count, done_count, cur_id, gives, last_target, path>>

\* the exact write of the target that ends a ramp
CtlRampFinal ==
    /\ ctl_pc = "ramp_final"
    /\ SetCurrentState(new_open_ratio)
    /\ ctl_pc' = AfterMove
    /\ RampScopeExit
    /\ UNCHANGED <<cfgVars, gate_state, control_queue, move_ready, subVars, cmd,
                   prev_open_ratio, new_open_ratio,
                   enq_count, done_count, cur_id, gives, last_target, path>>

\* variant of CtlUpdate: the discrete state is left as the command found it
CtlUpdate_KeepsState ==
    /\ ctl_pc = "update"
    /\ prev_open_ratio' = new_open_ratio
    /\ ctl_pc' = "give"
    /\ UNCHANGED <<cfgVars, gate_state, control_queue, move_ready, hwVars, subVars, cmd,
                   new_open_ratio, rampVars,
                   enq_count, done_count, cur_id, gives, last_target, path>>

\* ratio controller: discrete state and previous ratio after the move
CtlUpdate ==
    /\ ctl_pc = "update"
    /\ gate_state' = IF new_open_ratio <= OpenThreshold THEN GATE_OPEN
                     ELSE IF new_open_ratio >= CloseThreshold THEN GATE_CLOSE
                     ELSE gate_state
    /\ prev_open_ratio' = new_open_ratio
    /\ ctl_pc' = "give"
    /\ UNCHANGED <<cfgVars, control_queue, move_ready, hwVars, subVars, cmd,
                   new_open_ratio, rampVars,
                   enq_count, done_count, cur_id, gives, last_target, path>>

\* history: the target a command asks for, NoTarget for a DISABLED command
CmdTarget(c) ==
    IF variant = "ratio"
    THEN IF c.ratio = SERVO_GATE_RATIO_DISABLED THEN NoTarget ELSE clamp01(c.ratio)
    ELSE IF c.is_ratio THEN clamp01(c.ratio)
         ELSE IF c.state = GATE_OPEN THEN SERVO_GATE_RATIO_OPEN
         ELSE IF c.state = GATE_CLOSE THEN SERVO_GATE_RATIO_CLOSED
         ELSE NoTarget

\* xSemaphoreGive(servo_gate.move_ready_semphore) on a binary semaphore
GiveReady ==
    /\ move_ready' = 1
    /\ gives' = gives + 1
    /\ done_count' = done_count + 1
    /\ last_target' = IF CmdTarget(cmd) = NoTarget THEN last_target ELSE CmdTarget(cmd)

\* the ready signal at the end of a move
CtlGive ==
    /\ ctl_pc = "give"
    /\ GiveReady
    /\ IF variant = "ratio"
       THEN /\ ctl_pc' = "receive"
            /\ LoopScopeExit
       ELSE /\ ctl_pc' = "track"
            /\ UNCHANGED <<cmd, new_open_ratio>>
    /\ UNCHANGED <<cfgVars, gate_state, control_queue, hwVars, subVars,
                   prev_open_ratio, rampVars, enq_count, cur_id, path>>

\* variant of CtlGiveAck: continue without the ready signal
CtlGiveAck_NoGive ==
    /\ ctl_pc = "give_ack"
    /\ ctl_pc' = "receive"
    /\ done_count' = done_count + 1
    /\ last_target' = IF CmdTarget(cmd) = NoTarget THEN last_target ELSE CmdTarget(cmd)
    /\ LoopScopeExit
    /\ UNCHANGED <<cfgVars, gate_state, control_queue, move_ready, gives, hwVars, subVars,
                   prev_open_ratio, rampVars, enq_count, cur_id, path>>

\* the ready signal of a command that moves nothing (DISABLED, or no ratio
\* known yet in the state controller), followed by continue
CtlGiveAck ==
    /\ ctl_pc = "give_ack"
    /\ GiveReady
    /\ ctl_pc' = "receive"
    /\ LoopScopeExit
    /\ UNCHANGED <<cfgVars, gate_state, control_queue, hwVars, subVars,
                   prev_open_ratio, rampVars, enq_count, cur_id, path>>

\* state controller: state tracking after the ready signal
CtlTrack ==
    /\ ctl_pc = "track"
    /\ gate_state' = IF cmd.is_ratio THEN gate_state ELSE cmd.state
    /\ prev_open_ratio' = new_open_ratio
    /\ ctl_pc' = "receive"
    /\ LoopScopeExit
    /\ UNCHANGED <<cfgVars, control_queue, move_ready, hwVars, subVars, rampVars,
                   enq_count, done_count, cur_id, gives, last_target, path>>

\* ------------------------------------------------------ gate: behaviours
\* the control task, with the timer readings drawn from StartTimes and TickSteps
ControlTask(times) ==
    \/ CtlReceive
    \/ \E t \in times : CtlDecide(t)
    \/ \E t \in times : CtlDecideState(t)
    \/ \E step \in TickSteps(ramp_time_us) : CtlRampStep(step)
    \/ CtlRampFinal
    \/ CtlUpdate
    \/ CtlGive
    \/ CtlGiveAck
    \/ CtlTrack

\* the submitters in subs, passing the ratios in ratios
SubmitterTasks(subs, ratios) ==
    \/ \E s \in subs, ratio \in ratios, block_wait \in BOOLEAN :
          servo_gate_set_ratio(s, ratio, block_wait)
    \/ \E s \in subs, ratio \in ratios, block_wait \in BOOLEAN :
          servo_gate_set_ratio_state(s, ratio, block_wait)
    \/ \E s \in subs, state \in GateStates, block_wait \in BOOLEAN :
          servo_gate_set_state(s, state, block_wait)
    \/ \E s \in subs : SubmitSend(s)
    \/ \E s \in subs : SubmitWait(s)

\* several tasks submit commands concurrently
GateNext == SubmitterTasks(Submitters, ConcurrentRatios) \/ ControlTask(ConcurrentTimes)

\* scheduling of the gate: the control task runs whenever it can, a submitter
\* blocked on the queue or on the ready signal proceeds if it can infinitely often
GateFairness ==
    /\ WF_vars(ControlTask(ConcurrentTimes))
    /\ \A s \in Submitters : SF_vars(SubmitSend(s)) /\ SF_vars(SubmitWait(s))

\* one task submits commands of every kind
RampNext == SubmitterTasks({1}, RatioInputs) \/ ControlTask(StartTimes)

\* one task submits commands to a gate configured with any of the speeds
SpeedNext == SubmitterTasks({1}, SpeedRatios) \/ ControlTask(ConcurrentTimes)


\* =========================================================== scale part
\* bounds of the byte streams fed to the read-loops
MaxFrameLen == 34           \* bytes of one frame before its terminator
MaxPayload == 2             \* bytes of a frame that are not filler
MaxTrail == 1               \* filler bytes after the payload
MaxParseLen == 4            \* bytes of a frame fed to exercise the decoders
NumConsumers == 1           \* tasks that wait for measurements

Consumers == 1..NumConsumers

RxBufferSize == 32          \* char rx_buffer[32], char buffer[32]
MilliOne == 1000            \* a weight of 1.0: weights are in units of 0.001
\* current_scale_measurement = NAN after scale_init: a value no frame decodes to
NaN == MaxInt
\* a caller's output that was never assigned
Unwritten == MaxInt - 1

\* bytes: "LF" = '\n', "CR" = '\r', "x" = any letter that no number contains
Digits == {"0", "1", "2", "3", "4", "5", "6", "7", "8", "9"}
Signs == {"+", "-"}
Terminators == {"LF", "CR"}
FillerBytes == {"x"}
PayloadBytes == {"5", "+", "-", " ", "."}
RxBytes == FillerBytes \cup PayloadBytes \cup Terminators
\* bytes of the frames fed to exercise the decoders
ParseBytes == {"x", "+", "-", " ", "5", ".", "CR", "LF"}
\* bytes fed while a consumer runs next to the read-loop
MailboxBytes == {"5", "-", "LF"}

DigitVal(ch) ==
    CASE ch = "0" -> 0 [] ch = "1" -> 1 [] ch = "2" -> 2 [] ch = "3" -> 3
      [] ch = "4" -> 4 [] ch = "5" -> 5 [] ch = "6" -> 6 [] ch = "7" -> 7
      [] ch = "8" -> 8 [] ch = "9" -> 9

\* isspace() on the bytes of the model
IsSpace(ch) == ch \in {" ", "CR", "LF"}

\* ------------------------------------------------------------ strtof
RECURSIVE SkipSpace(_, _)
\* first position at or after i that holds no white space
SkipSpace(str, i) ==
    IF i <= Len(str) /\ IsSpace(str[i]) THEN SkipSpace(str, i + 1) ELSE i

RECURSIVE DigitRun(_, _)
\* number of consecutive digits from position i on
DigitRun(str, i) ==
    IF i <= Len(str) /\ str[i] \in Digits THEN 1 + DigitRun(str, i + 1) ELSE 0

RECURSIVE DigitsValue(_, _, _)
\* value of the n digits from position i on
DigitsValue(str, i, n) ==
    IF n = 0 THEN 0 ELSE DigitsValue(str, i, n - 1) * 10 + DigitVal(str[i + n - 1])

\* value, in units of 0.001, of the m fraction digits from position i on
FractionMilli(str, i, m) ==
    (IF m >= 1 THEN 100 * DigitVal(str[i]) ELSE 0)
    + (IF m >= 2 THEN 10 * DigitVal(str[i + 1]) ELSE 0)
    + (IF m >= 3 THEN DigitVal(str[i + 2]) ELSE 0)

\* strtof(str, &endptr) on decimal input: white space, optional sign, digits
\* with an optional point.  used = endptr - str (0: no conversion),
\* val = the result in units of 0.001.
Strtof(str) ==
    LET i == SkipSpace(str, 1)
        signed == i <= Len(str) /\ str[i] \in Signs
        neg == signed /\ str[i] = "-"
        j == IF signed THEN i + 1 ELSE i
        n == DigitRun(str, j)
        point == j + n <= Len(str) /\ str[j + n] = "."
        m == IF point THEN DigitRun(str, j + n + 1) ELSE 0
        mag == DigitsValue(str, j, n) * MilliOne + FractionMilli(str, j + n + 1, m)
    IN IF n + m = 0
       THEN [used |-> 0, val |-> 0]
       ELSE [used |-> (j - 1) + n + (IF point THEN 1 + m ELSE 0),
             val |-> IF neg THEN -mag ELSE mag]

\* the rest of a string from position i on (&str[i - 1] in C)
From(str, i) == SubSeq(str, i, Len(str))

\* -------------------------------------------------------- generic decode
RECURSIVE NumberStart(_, _)
\* generic read-loop: startptr after the scan for a digit or a sign
NumberStart(str, i) ==
    IF i <= Len(str) /\ str[i] \notin Digits /\ str[i] \notin Signs
    THEN NumberStart(str, i + 1) ELSE i

\* variant of GenericDecode: the result of strtof is taken unchecked
GenericDecode_Unchecked(str) ==
    [ok |-> TRUE, weight |-> Strtof(From(str, NumberStart(str, 1))).val]

\* generic read-loop: strtof from the first digit or sign of the frame;
\* ok = (endptr != startptr)
GenericDecode(str) ==
    LET r == Strtof(From(str, NumberStart(str, 1)))
    IN [ok |-> r.used > 0, weight |-> r.val]

\* a test that lets the cursor reach the last element
GenericOverflow_OffByOne(idx) == idx >= RxBufferSize

\* generic read-loop: the test that resets the cursor before a store
GenericOverflow(idx) == idx >= RxBufferSize - 1

\* ------------------------------------------------------ Sartorius decode
RECURSIVE SkipBlanks(_, _, _)
\* _decode_measurement_msg: while (start < len && msg[start] == ' ') start++
SkipBlanks(msg, len, start) ==
    IF start < len /\ msg[start + 1] = " " THEN SkipBlanks(msg, len, start + 1) ELSE start

\* variant of DecodeMeasurementMsg: the sign is skipped but not applied
DecodeMeasurementMsg_SignDropped(msg, len) ==
    LET signed == len > 0 /\ msg[1] \in Signs
        start == SkipBlanks(msg, len, IF signed THEN 1 ELSE 0)
    IN IF start < len THEN Strtof(From(msg, start + 1)).val ELSE 0

\* _decode_measurement_msg(msg, len): sign * value
DecodeMeasurementMsg(msg, len) ==
    LET signed == len > 0 /\ msg[1] \in Signs
        sign == IF signed /\ msg[1] = "-" THEN -1 ELSE 1
        start == SkipBlanks(msg, len, IF signed THEN 1 ELSE 0)
        value == IF start < len THEN Strtof(From(msg, start + 1)).val ELSE 0
    IN sign * value

\* Sartorius read-loop: room for one more byte
SartoriusHasRoom(index) == index < RxBufferSize - 1

\* ------------------------------------------------- scale: configuration
\* scale_driver_t: the selectors set_scale_driver knows
KnownDrivers ==
    {"SCALE_DRIVER_AND_FXI", "SCALE_DRIVER_STEINBERG_SBS", "SCALE_DRIVER_GNG_JJB",
     "SCALE_DRIVER_USSOLID_JFDBS", "SCALE_DRIVER_JM_SCIENCE", "SCALE_DRIVER_CREEDMOOR",
     "SCALE_DRIVER_RADWAG_PS_R2", "SCALE_DRIVER_SARTORIUS", "SCALE_DRIVER_GENERIC_DRV"}
\* values of the selector that name no driver (atoi of a request parameter)
UnknownDrivers == {"driver_below_range", "driver_above_range"}
DriverSelectors == KnownDrivers \cup UnknownDrivers

\* variant of HandleOf: an unknown selector leaves no descriptor
HandleOf_NoDefault(sel) ==
    CASE sel = "SCALE_DRIVER_AND_FXI" -> "and_fxi_scale_handle"
      [] sel = "SCALE_DRIVER_STEINBERG_SBS" -> "steinberg_scale_handle"
      [] sel = "SCALE_DRIVER_GNG_JJB" -> "gng_scale_handle"
      [] sel = "SCALE_DRIVER_USSOLID_JFDBS" -> "ussolid_scale_handle"
      [] sel = "SCALE_DRIVER_JM_SCIENCE" -> "jm_science_scale_handle"
      [] sel = "SCALE_DRIVER_CREEDMOOR" -> "creedmoor_scale_handle"
      [] sel = "SCALE_DRIVER_RADWAG_PS_R2" -> "radwag_ps_r2_scale_handle"
      [] sel = "SCALE_DRIVER_SARTORIUS" -> "sartorius_scale_handle"
      [] sel = "SCALE_DRIVER_GENERIC_DRV" -> "generic_scale_drv_handle"
      [] OTHER -> "NULL"

\* set_scale_driver: the descriptor the switch selects
HandleOf(sel) ==
    CASE sel = "SCALE_DRIVER_AND_FXI" -> "and_fxi_scale_handle"
      [] sel = "SCALE_DRIVER_STEINBERG_SBS" -> "steinberg_scale_handle"
      [] sel = "SCALE_DRIVER_GNG_JJB" -> "gng_scale_handle"
      [] sel = "SCALE_DRIVER_USSOLID_JFDBS" -> "ussolid_scale_handle"
      [] sel = "SCALE_DRIVER_JM_SCIENCE" -> "jm_science_scale_handle"
      [] sel = "SCALE_DRIVER_CREEDMOOR" -> "creedmoor_scale_handle"
      [] sel = "SCALE_DRIVER_RADWAG_PS_R2" -> "radwag_ps_r2_scale_handle"
      [] sel = "SCALE_DRIVER_SARTORIUS" -> "sartorius_scale_handle"
      [] sel = "SCALE_DRIVER_GENERIC_DRV" -> "generic_scale_drv_handle"
      [] OTHER -> "and_fxi_scale_handle"

\* get_scale_driver_string: the name of the stored selector, NULL if it has none
get_scale_driver_string ==
    CASE scale_driver = "SCALE_DRIVER_AND_FXI" -> "AND FX-i Std"
      [] scale_driver = "SCALE_DRIVER_STEINBERG_SBS" -> "Steinberg SBS"
      [] scale_driver = "SCALE_DRIVER_USSOLID_JFDBS" -> "US Solid JFDBS"
      [] scale_driver = "SCALE_DRIVER_GNG_JJB" -> "GNG JJB"
      [] scale_driver = "SCALE_DRIVER_JM_SCIENCE" -> "JM Science"
      [] scale_driver = "SCALE_DRIVER_CREEDMOOR" -> "Creedmoor"
      [] scale_driver = "SCALE_DRIVER_RADWAG_PS_R2" -> "Radwag PS R2"
      [] scale_driver = "SCALE_DRIVER_SARTORIUS" -> "Sartorius"
      [] OTHER -> "NULL"

\* scale_baudrate_t and the values that name no baud rate
KnownBaudrates == {"BAUDRATE_4800", "BAUDRATE_9600", "BAUDRATE_19200"}
BaudrateSelectors == KnownBaudrates \cup {"baudrate_out_of_range"}

\* get_scale_baudrate
get_scale_baudrate(b) ==
    CASE b = "BAUDRATE_4800" -> 4800
      [] b = "BAUDRATE_9600" -> 9600
      [] b = "BAUDRATE_19200" -> 19200
      [] OTHER -> 0

\* scale_uart_format_t and the values that name no format
KnownFormats == {"UART_FMT_8D_1S_NP", "UART_FMT_7D_1S_NP"}
FormatSelectors == KnownFormats \cup {"format_out_of_range"}

\* scale_action_t as received in the request parameter a0
ScaleActions == {"SCALE_ACTION_NO_ACTION", "SCALE_ACTION_FORCE_ZERO"}

\* the force_zero member of a descriptor: NULL in the generic one, a function
\* in the Sartorius one; the other descriptors are defined outside this code
ForceZeroOf(h) ==
    CASE h = "generic_scale_drv_handle" -> {"NULL"}
      [] h = "sartorius_scale_handle" -> {"force_zero"}
      [] OTHER -> {"NULL", "force_zero"}

\* scale_config.scale_handle->force_zero(): a call through a null pointer is
\* undefined, it may fault or come back after running whatever is at 0
CallForceZero(h) ==
    UNION {IF f = "NULL" THEN {"fault", "returned_from_null"} ELSE {"invoked"}
           : f \in ForceZeroOf(h)}

\* ------------------------------------------------------------ scale: Init
\* scale_init with one of the selectors in drivers stored, the rest of the
\* persistent configuration as in default_scale_persistent_config
ScaleBoot(drivers) ==
    /\ scale_driver \in drivers
    /\ scale_handle = HandleOf(scale_driver)
    /\ scale_baudrate = "BAUDRATE_19200"
    /\ uart_baudrate = get_scale_baudrate("BAUDRATE_19200")
    /\ scale_uart_format = "UART_FMT_8D_1S_NP"
    /\ uart_data_bits = 8
    /\ zero_outcome = "none"
    /\ current_scale_measurement = NaN
    /\ scale_measurement_ready = 0
    /\ rd_pc = "poll"
    /\ rx_buffer = <<>>
    /\ rx_buffer_idx = 0
    /\ buf_buffer = <<>>
    /\ buf_index = 0
    /\ con_pc = [c \in Consumers |-> "idle"]
    /\ con_block_time = [c \in Consumers |-> 0]
    /\ con_result = [c \in Consumers |-> FALSE]
    /\ con_out = [c \in Consumers |-> Unwritten]
    /\ frame = <<>>
    /\ decode_called = FALSE
    /\ complete = <<>>
    /\ decoded = <<>>
    /\ last_store_idx = -1
    /\ gives_since_take = 0
    /\ last_given = NaN
    /\ covered = [c \in Consumers |-> 0]
    /\ fresh = [c \in Consumers |-> FALSE]

\* scale_init for one of the two drivers whose read-loop this module holds
ScaleInit == ScaleBoot({"SCALE_DRIVER_GENERIC_DRV", "SCALE_DRIVER_SARTORIUS"})

NoneCovered == [c \in Consumers |-> 0]

\* history: a store of the measurement is new to every caller
AllFresh == [c \in Consumers |-> TRUE]

conVars == <<con_pc, con_block_time, con_result, con_out>>
rxVars == <<rx_buffer, rx_buffer_idx, buf_buffer, buf_index>>
frameHist == <<frame, decode_called, complete, decoded, last_store_idx>>

\* --------------------------------------------------- scale: byte streams
\* number of filler bytes at the end of a frame that has payload
RECURSIVE Trail(_)
Trail(f) ==
    IF f = <<>> \/ f[Len(f)] \notin FillerBytes THEN 0
    ELSE 1 + Trail(SubSeq(f, 1, Len(f) - 1))

PayloadCount(f) == Cardinality({i \in 1..Len(f) : f[i] \notin FillerBytes})

\* the frames the model feeds: filler, then payload, then a short filler trail
RxAllowed(ch) ==
    \/ ch = "LF"
    \/ ch = "CR" /\ scale_handle = "sartorius_scale_handle"
    \/ /\ ch \notin Terminators \/ scale_handle = "generic_scale_drv_handle"
       /\ ch # "LF"
       /\ Len(frame) < MaxFrameLen
       /\ IF ch \notin FillerBytes
          THEN PayloadCount(frame) < MaxPayload
               /\ (PayloadCount(frame) = 0 \/ Trail(frame) = 0)
          ELSE PayloadCount(frame) = 0 \/ Trail(frame) < MaxTrail

\* short frames of any content: a prefix, a sign, blanks, a number, a unit
ParseAllowed(ch) ==
    \/ ch = "LF"
    \/ ch = "CR" /\ scale_handle = "sartorius_scale_handle"
    \/ ch \notin Terminators /\ Len(frame) < MaxParseLen

\* --------------------------------------------------- generic read-loop
\* one byte: uart_getc up to the store of the weight, or to the cursor reset
GenericRx(ch) ==
    /\ scale_handle = "generic_scale_drv_handle"
    /\ rd_pc = "poll"
    /\ LET idx0 == IF GenericOverflow(rx_buffer_idx) THEN 0 ELSE rx_buffer_idx
           stored == Append(SubSeq(rx_buffer, 1, idx0), ch)
           idx1 == idx0 + 1
           d == GenericDecode(stored)
       IN IF ch = "LF"
          THEN /\ last_store_idx' = idx1
               /\ decode_called' = TRUE
               /\ complete' = frame
               /\ decoded' = SubSeq(stored, 1, Len(stored) - 1)
               /\ frame' = <<>>
               /\ IF d.ok
                  THEN /\ current_scale_measurement' = d.weight
                       /\ covered' = NoneCovered
                       /\ fresh' = AllFresh
                       /\ rd_pc' = "give"
                       /\ rx_buffer' = stored
                       /\ rx_buffer_idx' = idx1
                  ELSE /\ rx_buffer' = <<>>
                       /\ rx_buffer_idx' = 0
                       /\ UNCHANGED <<current_scale_measurement, rd_pc, covered, fresh>>
          ELSE /\ last_store_idx' = idx0
               /\ decode_called' = FALSE
               /\ complete' = <<>>
               /\ decoded' = <<>>
               /\ frame' = Append(frame, ch)
               /\ rx_buffer' = stored
               /\ rx_buffer_idx' = idx1
               /\ UNCHANGED <<current_scale_measurement, rd_pc, covered, fresh>>
    /\ UNCHANGED <<gateVars, writeVars, confVars, scale_handle, scale_measurement_ready,
                   buf_buffer, buf_index, conVars, gives_since_take, last_given>>

\* a give that counts: what a counting semaphore would do
GiveMeasurementReady_Counting ==
    /\ scale_measurement_ready' = IF scale_measurement_ready < 2
                                  THEN scale_measurement_ready + 1 ELSE 2
    /\ gives_since_take' = IF gives_since_take < 2 THEN gives_since_take + 1 ELSE 2
    /\ last_given' = current_scale_measurement

\* xSemaphoreGive(scale_config.scale_measurement_ready) on a binary semaphore
GiveMeasurementReady ==
    /\ scale_measurement_ready' = 1
    /\ gives_since_take' = IF gives_since_take < 2 THEN gives_since_take + 1 ELSE 2
    /\ last_given' = current_scale_measurement

\* the ready signal of a publish, then the cursor reset
GenericGive ==
    /\ scale_handle = "generic_scale_drv_handle"
    /\ rd_pc = "give"
    /\ GiveMeasurementReady
    /\ rx_buffer' = <<>>
    /\ rx_buffer_idx' = 0
    /\ rd_pc' = "poll"
    /\ UNCHANGED <<gateVars, writeVars, confVars, scale_handle, current_scale_measurement, buf_buffer,
                   buf_index, conVars, frameHist, covered, fresh>>

\* -------------------------------------------------- Sartorius read-loop
\* one byte: uart_getc up to the store of the weight, or to the buffer update
SartoriusRx(ch) ==
    /\ scale_handle = "sartorius_scale_handle"
    /\ rd_pc = "poll"
    /\ IF ch \in Terminators
       THEN /\ frame' = <<>>
            /\ IF buf_index > 0
               THEN /\ last_store_idx' = buf_index
                    /\ decode_called' = TRUE
                    /\ complete' = frame
                    /\ decoded' = buf_buffer
                    /\ current_scale_measurement' = DecodeMeasurementMsg(buf_buffer, buf_index)
                    /\ covered' = NoneCovered
                    /\ fresh' = AllFresh
                    /\ rd_pc' = "give"
                    /\ UNCHANGED <<buf_buffer, buf_index>>
               ELSE /\ last_store_idx' = -1
                    /\ decode_called' = FALSE
                    /\ complete' = <<>>
                    /\ decoded' = <<>>
                    /\ UNCHANGED <<current_scale_measurement, rd_pc, buf_buffer,
                                   buf_index, covered, fresh>>
       ELSE /\ frame' = Append(frame, ch)
            /\ decode_called' = FALSE
            /\ complete' = <<>>
            /\ decoded' = <<>>
            /\ UNCHANGED <<current_scale_measurement, rd_pc, covered, fresh>>
            /\ IF SartoriusHasRoom(buf_index)
               THEN /\ last_store_idx' = buf_index
                    /\ buf_buffer' = Append(buf_buffer, ch)
                    /\ buf_index' = buf_index + 1
               ELSE /\ last_store_idx' = -1
                    /\ buf_buffer' = <<>>
                    /\ buf_index' = 0
    /\ UNCHANGED <<gateVars, writeVars, confVars, scale_handle, scale_measurement_ready, rx_buffer,
                   rx_buffer_idx, conVars, gives_since_take, last_given>>

\* the ready signal of a publish, then the buffer reset
SartoriusGive ==
    /\ scale_handle = "sartorius_scale_handle"
    /\ rd_pc = "give"
    /\ GiveMeasurementReady
    /\ buf_buffer' = <<>>
    /\ buf_index' = 0
    /\ rd_pc' = "poll"
    /\ UNCHANGED <<gateVars, writeVars, confVars, scale_handle, current_scale_measurement, rx_buffer,
                   rx_buffer_idx, conVars, frameHist, covered, fresh>>

\* ------------------------------- scale_block_wait_for_next_measurement
\* the call: block_time_ms = 0 waits for ever, any other value is a timeout
WaitCall(c, block_time_ms) ==
    /\ con_pc[c] \in {"idle", "returned"}
    /\ con_pc' = [con_pc EXCEPT ![c] = "take"]
    /\ con_block_time' = [con_block_time EXCEPT ![c] = block_time_ms]
    /\ con_out' = [con_out EXCEPT ![c] = Unwritten]
    /\ covered' = [covered EXCEPT ![c] = 0]
    /\ UNCHANGED <<gateVars, writeVars, confVars, scale_handle, current_scale_measurement,
                   scale_measurement_ready, rd_pc, rxVars, con_result, frameHist,
                   gives_since_take, last_given, fresh>>

\* xSemaphoreTake(scale_config.scale_measurement_ready, delay_ticks) == pdTRUE
WaitTake(c) ==
    /\ con_pc[c] = "take"
    /\ scale_measurement_ready = 1
    /\ scale_measurement_ready' = 0
    /\ covered' = [covered EXCEPT ![c] = gives_since_take]
    /\ gives_since_take' = 0
    /\ con_pc' = [con_pc EXCEPT ![c] = "read"]
    /\ UNCHANGED <<gateVars, writeVars, confVars, scale_handle, current_scale_measurement, rd_pc, rxVars,
                   con_block_time, con_result, con_out, frameHist, last_given, fresh>>

\* variant of WaitTimeout: the infinite wait gives up as well
WaitTimeout_AnyBlockTime(c) ==
    /\ con_pc[c] = "take"
    /\ scale_measurement_ready = 0
    /\ con_result' = [con_result EXCEPT ![c] = FALSE]
    /\ con_pc' = [con_pc EXCEPT ![c] = "returned"]
    /\ UNCHANGED <<gateVars, writeVars, confVars, scale_handle, current_scale_measurement,
                   scale_measurement_ready, rd_pc, rxVars, con_block_time, con_out,
                   frameHist, gives_since_take, last_given, covered, fresh>>

\* the take times out: return false
WaitTimeout(c) ==
    /\ con_pc[c] = "take"
    /\ con_block_time[c] # 0
    /\ scale_measurement_ready = 0
    /\ con_result' = [con_result EXCEPT ![c] = FALSE]
    /\ con_pc' = [con_pc EXCEPT ![c] = "returned"]
    /\ UNCHANGED <<gateVars, writeVars, confVars, scale_handle, current_scale_measurement,
                   scale_measurement_ready, rd_pc, rxVars, con_block_time, con_out,
                   frameHist, gives_since_take, last_given, covered, fresh>>

\* *current_measurement = scale_get_current_measurement(); return true
WaitRead(c) ==
    /\ con_pc[c] = "read"
    /\ con_out' = [con_out EXCEPT ![c] = current_scale_measurement]
    /\ con_result' = [con_result EXCEPT ![c] = TRUE]
    /\ con_pc' = [con_pc EXCEPT ![c] = "returned"]
    /\ fresh' = [fresh EXCEPT ![c] = FALSE]
    /\ UNCHANGED <<gateVars, writeVars, confVars, scale_handle, current_scale_measurement,
                   scale_measurement_ready, rd_pc, rxVars, con_block_time,
                   frameHist, gives_since_take, last_given, covered>>

\* ------------------------------------------------------------ scale_write
NumWriters == 2             \* tasks that call scale_write
MaxWriteLen == 4            \* longest command, in bytes

MainThread == 0             \* the thread that runs before the scheduler starts
WriterTasks == 1..NumWriters
Writers == {MainThread} \cup WriterTasks

taskSCHEDULER_NOT_STARTED == "not_started"
taskSCHEDULER_RUNNING == "running"

\* scale_init created the mutex; the scheduler has not been started
WriteInit ==
    /\ scheduler_state = taskSCHEDULER_NOT_STARTED
    /\ write_mutex = 0
    /\ wr_pc = [w \in Writers |-> "idle"]
    /\ wr_sched = [w \in Writers |-> taskSCHEDULER_NOT_STARTED]
    /\ wr_left = [w \in Writers |-> 0]

\* tasks run once the scheduler runs, the main thread only before
Runs(w) ==
    IF w = MainThread THEN scheduler_state = taskSCHEDULER_NOT_STARTED
    ELSE scheduler_state = taskSCHEDULER_RUNNING

\* vTaskStartScheduler, called by the main thread between its other calls
StartScheduler ==
    /\ scheduler_state = taskSCHEDULER_NOT_STARTED
    /\ wr_pc[MainThread] = "idle"
    /\ scheduler_state' = taskSCHEDULER_RUNNING
    /\ UNCHANGED <<gateVars, scaleVars, confVars, write_mutex, wr_pc, wr_sched, wr_left>>

\* scale_write(command, len): scheduler_state = xTaskGetSchedulerState()
WriteCall(w, len) ==
    /\ Runs(w)
    /\ wr_pc[w] = "idle"
    /\ wr_sched' = [wr_sched EXCEPT ![w] = scheduler_state]
    /\ wr_left' = [wr_left EXCEPT ![w] = len]
    /\ wr_pc' = [wr_pc EXCEPT ![w] = "take"]
    /\ UNCHANGED <<gateVars, scaleVars, confVars, scheduler_state, write_mutex>>

\* a take that does not wait for the holder
TakeMutex_NoWait(w) ==
    /\ Runs(w)
    /\ wr_pc[w] = "take"
    /\ write_mutex' = IF wr_sched[w] # taskSCHEDULER_NOT_STARTED THEN w ELSE write_mutex
    /\ wr_pc' = [wr_pc EXCEPT ![w] = "transmit"]
    /\ UNCHANGED <<gateVars, scaleVars, confVars, scheduler_state, wr_sched, wr_left>>

\* _take_mutex(scheduler_state)
TakeMutex(w) ==
    /\ Runs(w)
    /\ wr_pc[w] = "take"
    /\ IF wr_sched[w] # taskSCHEDULER_NOT_STARTED
       THEN write_mutex = 0 /\ write_mutex' = w
       ELSE UNCHANGED write_mutex
    /\ wr_pc' = [wr_pc EXCEPT ![w] = "transmit"]
    /\ UNCHANGED <<gateVars, scaleVars, confVars, scheduler_state, wr_sched, wr_left>>

\* uart_write_blocking: one byte of the command
Transmit(w) ==
    /\ Runs(w)
    /\ wr_pc[w] = "transmit"
    /\ wr_left' = [wr_left EXCEPT ![w] = IF @ > 0 THEN @ - 1 ELSE 0]
    /\ wr_pc' = [wr_pc EXCEPT ![w] = IF wr_left[w] <= 1 THEN "give" ELSE "transmit"]
    /\ UNCHANGED <<gateVars, scaleVars, confVars, scheduler_state, write_mutex, wr_sched>>

\* variant of GiveMutex: the return without the release
GiveMutex_NoRelease(w) ==
    /\ Runs(w)
    /\ wr_pc[w] = "give"
    /\ wr_pc' = [wr_pc EXCEPT ![w] = "idle"]
    /\ UNCHANGED <<gateVars, scaleVars, confVars, scheduler_state, write_mutex,
                   wr_sched, wr_left>>

\* _give_mutex(scheduler_state), and the return
GiveMutex(w) ==
    /\ Runs(w)
    /\ wr_pc[w] = "give"
    /\ write_mutex' = IF wr_sched[w] # taskSCHEDULER_NOT_STARTED THEN 0 ELSE write_mutex
    /\ wr_pc' = [wr_pc EXCEPT ![w] = "idle"]
    /\ UNCHANGED <<gateVars, scaleVars, confVars, scheduler_state, wr_sched, wr_left>>

\* the callers of scale_write and the start of the scheduler
WriteNext ==
    \/ StartScheduler
    \/ \E w \in Writers, len \in 0..MaxWriteLen : WriteCall(w, len)
    \/ \E w \in Writers : TakeMutex(w)
    \/ \E w \in Writers : Transmit(w)
    \/ \E w \in Writers : GiveMutex(w)

\* scheduling of the callers of scale_write: a caller that can run does run,
\* and a caller blocked on the mutex gets it once it is released often enough
\* (the mutex wakes its waiters in order of priority and of arrival)
WriteFairness ==
    \A w \in Writers :
        /\ SF_vars(TakeMutex(w))
        /\ WF_vars(Transmit(w))
        /\ WF_vars(GiveMutex(w))

\* ----------------------------------------------- scale: configuration API
\* set_scale_driver(scale_driver)
set_scale_driver(sel) ==
    /\ scale_driver' = sel
    /\ scale_handle' = HandleOf(sel)
    /\ UNCHANGED <<gateVars, writeVars, scale_baudrate, scale_uart_format,
                   uart_baudrate, uart_data_bits, zero_outcome,
                   current_scale_measurement, scale_measurement_ready, rd_pc,
                   rxVars, conVars, frameHist, gives_since_take, last_given, covered, fresh>>

\* set_scale_baudrate(baudrate)
set_scale_baudrate(b) ==
    /\ scale_baudrate' = b
    /\ uart_baudrate' = get_scale_baudrate(b)
    /\ UNCHANGED <<gateVars, writeVars, scaleVars, scale_driver, scale_uart_format,
                   uart_data_bits, zero_outcome>>

\* set_scale_uart_format(format)
set_scale_uart_format(f) ==
    /\ scale_uart_format' = f
    /\ uart_data_bits' = CASE f = "UART_FMT_8D_1S_NP" -> 8
                           [] f = "UART_FMT_7D_1S_NP" -> 7
                           [] OTHER -> uart_data_bits
    /\ UNCHANGED <<gateVars, writeVars, scaleVars, scale_driver, scale_baudrate,
                   uart_baudrate, zero_outcome>>

\* http_rest_scale_action with the parameter a0 = action
http_rest_scale_action(action) ==
    /\ IF action = "SCALE_ACTION_FORCE_ZERO"
       THEN zero_outcome' \in CallForceZero(scale_handle)
       ELSE zero_outcome' = "no_action"
    /\ UNCHANGED <<gateVars, writeVars, scaleVars, scale_driver, scale_baudrate,
                   scale_uart_format, uart_baudrate, uart_data_bits>>

\* requests that configure the scale and ask for actions
ConfigNext ==
    \/ \E sel \in DriverSelectors : set_scale_driver(sel)
    \/ \E b \in BaudrateSelectors : set_scale_baudrate(b)
    \/ \E f \in FormatSelectors : set_scale_uart_format(f)
    \/ \E action \in ScaleActions : http_rest_scale_action(action)

\* ---------------------------------------------------- scale: behaviours
\* the callers of scale_block_wait_for_next_measurement; 100 = some timeout
ConsumerTasks ==
    \/ \E c \in Consumers, block_time_ms \in {0, 100} : WaitCall(c, block_time_ms)
    \/ \E c \in Consumers : WaitTake(c)
    \/ \E c \in Consumers : WaitTimeout(c)
    \/ \E c \in Consumers : WaitRead(c)

\* a read-loop alone, fed frames of every shape
RxNext ==
    \/ \E ch \in RxBytes : RxAllowed(ch) /\ GenericRx(ch)
    \/ GenericGive
    \/ \E ch \in RxBytes : RxAllowed(ch) /\ SartoriusRx(ch)
    \/ SartoriusGive

\* a read-loop alone, fed short frames of every content
ParseNext ==
    \/ \E ch \in ParseBytes : ParseAllowed(ch) /\ GenericRx(ch)
    \/ GenericGive
    \/ \E ch \in ParseBytes : ParseAllowed(ch) /\ SartoriusRx(ch)
    \/ SartoriusGive

\* a read-loop and the consumers of its measurements
MailboxNext ==
    \/ \E ch \in MailboxBytes : RxAllowed(ch) /\ GenericRx(ch)
    \/ GenericGive
    \/ \E ch \in MailboxBytes : RxAllowed(ch) /\ SartoriusRx(ch)
    \/ SartoriusGive
    \/ ConsumerTasks

\* ======================================================= specifications
\* the part that a specification leaves alone stays in one initial state
GateQuiet == GateInit /\ variant = "ratio" /\ ~servo_gate_enable
ScaleQuiet == ScaleInit /\ scale_handle = "generic_scale_drv_handle"

\* the gate with the default configuration: servo_gate_enable = false
Init == GateInit /\ ~servo_gate_enable /\ ScaleQuiet /\ WriteInit
Next == GateNext

\* gate: several submitters and the control task
Spec == Init /\ [][Next]_vars
\* the same under the scheduler's fairness
SpecFair == Init /\ [][Next]_vars /\ GateFairness
\* gate: one submitter, commands of every kind, enabled or not
RampInit == GateInit /\ ScaleQuiet /\ WriteInit
\* the gate with the speeds of any stored configuration
SpeedInit == GateBoot(OpenSpeedInputs, CloseSpeedInputs) /\ ScaleQuiet /\ WriteInit
SpecSpeed == SpeedInit /\ [][SpeedNext]_vars
SpecRamp == RampInit /\ [][RampNext]_vars
\* scale: a read-loop on its own
RxInit == GateQuiet /\ ScaleInit /\ WriteInit
SpecRx == RxInit /\ [][RxNext]_vars
\* scale: a read-loop on its own, decoding short frames
SpecParse == RxInit /\ [][ParseNext]_vars
\* scale: a read-loop and the consumers of the mailbox
SpecMailbox == RxInit /\ [][MailboxNext]_vars
\* scale: configuration requests, from the default configuration
ConfigInit == GateQuiet /\ ScaleBoot({"SCALE_DRIVER_AND_FXI"}) /\ WriteInit
SpecConfig == ConfigInit /\ [][ConfigNext]_vars
\* scale: the callers of scale_write
QuietInit == GateQuiet /\ ScaleQuiet /\ WriteInit
SpecWrite == QuietInit /\ [][WriteNext]_vars
\* scale: the callers of scale_write under the scheduler's fairness
SpecWriteFair == QuietInit /\ [][WriteNext]_vars /\ WriteFairness

\* ================================================================ claims
\* the control task holds a command whose ready signal is still to come
InProgress == IF ctl_pc \in {"receive", "track"} THEN 0 ELSE 1

\* C1: a submission with block_wait = true returns only after the control
\* task has processed the command of that very submission.
C1_BlockingReturnsAfterOwnCommand ==
    [][\A s \in Submitters :
         (sub_pc[s] = "wait" /\ sub_pc'[s] = "idle") => sub_id[s] <= done_count']_vars

\* C2: for every command dequeued, on every path, the control task gives the
\* motion-ready semaphore exactly once before it dequeues the next command:
\* no give while the command is being processed, one give once it is done.
C2_OneGivePerCommand ==
    /\ (ctl_pc \in {"receive", "track"} /\ cur_id > 0) => gives = 1
    /\ (ctl_pc \notin {"receive", "track"}) => gives = 0

C2_Witness ==
    /\ ctl_pc = "receive"
    /\ path = "ramped"
    /\ done_count = 3
    /\ gives = 1

\* C3: the queue never holds more than one command; the commands are taken
\* in the order of enqueueing, each exactly once (every enqueued command is
\* queued, held or done); hardware writes belong to the command in progress,
\* never to a later one.
C3_OneAtATimeInOrder ==
    /\ Len(control_queue) <= 1
    /\ cur_id = done_count + InProgress
    /\ enq_count = cur_id + Len(control_queue)
    /\ \A i \in 1..Len(control_queue) : control_queue[i].id = cur_id + i
    /\ write_owner <= cur_id
    /\ (cmd_writes # <<>>) => write_owner = cur_id

C3_Witness ==
    /\ Len(control_queue) = 1
    /\ InProgress = 1
    /\ cmd_writes # <<>>
    /\ \E s \in Submitters : sub_pc[s] = "send"

\* C4: the measurement mailbox overwrites.  The ready signal never holds more
\* than one notification; a wait whose take covered two publishes (v1 then
\* v2, no wait in between) succeeds with v2, the value of the latest publish;
\* and after a successful take no notification is left until the next publish,
\* so that a further wait cannot succeed.
C4_MailboxOverwrite ==
    /\ scale_measurement_ready \in {0, 1}
    /\ gives_since_take = 0 => scale_measurement_ready = 0
    /\ \A c \in Consumers :
         (con_pc[c] = "returned" /\ con_result[c] /\ covered[c] = 2 /\ rd_pc = "poll")
            => con_out[c] = last_given

C4_Witness ==
    \E c \in Consumers :
        /\ con_pc[c] = "returned" /\ con_result[c] /\ covered[c] = 2
        /\ rd_pc = "poll" /\ gives_since_take = 0
        /\ con_out[c] = -5 * MilliOne
        /\ scale_measurement_ready = 0

\* the callers of scale_write that are inside uart_write_blocking
InTransmit == {w \in Writers : wr_pc[w] = "transmit"}

\* C5: once the scheduler runs, at most one task is inside the UART transmit
\* of scale_write, and it is the holder of the write mutex.
C5_WritersSerialized ==
    scheduler_state = taskSCHEDULER_RUNNING =>
        /\ Cardinality(InTransmit) <= 1
        /\ \A w \in InTransmit : wr_sched[w] = taskSCHEDULER_RUNNING => write_mutex = w

C5_Witness ==
    /\ scheduler_state = taskSCHEDULER_RUNNING
    /\ \E w1, w2 \in WriterTasks :
        /\ w1 # w2
        /\ wr_pc[w1] = "transmit" /\ wr_left[w1] = 1
        /\ wr_pc[w2] = "take"
        /\ write_mutex = w1

\* C6: every store of both read-loops, the NUL written at the end of a frame
\* included, goes to an index in [0, 32).
C6_StoresInBounds ==
    /\ last_store_idx >= -1
    /\ last_store_idx < RxBufferSize
    /\ rx_buffer_idx < RxBufferSize
    /\ buf_index < RxBufferSize

C6_Witness ==
    /\ decode_called
    /\ last_store_idx = RxBufferSize - 1
    /\ Len(complete) = RxBufferSize - 2
    /\ decoded = complete

\* C7: the span handed to the decode step at a terminator is the complete
\* frame, all the bytes received since the previous terminator.
C7_DecodesCompleteFrame ==
    decode_called => decoded = complete

\* a frame without any digit: no number can be converted from it
NoDigit(f) == \A i \in 1..Len(f) : f[i] \notin Digits

\* C8: a terminated frame from which no number can be converted publishes
\* nothing: the stored measurement stays and the ready signal is not given.
C8_FailedDecodePublishesNothing ==
    [][(rd_pc = "poll" /\ frame' = <<>> /\ NoDigit(frame))
         => /\ current_scale_measurement' = current_scale_measurement
            /\ rd_pc' = "poll"
            /\ scale_measurement_ready' = scale_measurement_ready]_vars

\* C9: processing a DISABLED command (ratio controller) sets the coarse state
\* to Disabled, writes no duty cycle, leaves the previous ratio unchanged and
\* raises the motion-ready signal.
C9_DisabledCommand ==
    [][(variant = "ratio" /\ ctl_pc \in {"decide", "give_ack"}
        /\ cmd.ratio = SERVO_GATE_RATIO_DISABLED)
       => /\ prev_open_ratio' = prev_open_ratio
          /\ pwm_cc' = pwm_cc
          /\ cmd_writes' = <<>>
          /\ (ctl_pc' = "receive" => (gate_state' = GATE_DISABLED /\ move_ready' = 1))
          /\ (ctl_pc' = "receive" => (gives' = 1 /\ ctl_pc = "give_ack"))]_vars

C9_Witness ==
    /\ variant = "ratio"
    /\ ctl_pc = "receive"
    /\ path = "disabled"
    /\ gate_state = GATE_DISABLED
    /\ prev_open_ratio = 5000
    /\ move_ready = 1

\* C10: a ramp starts from the target of the most recent earlier command that
\* is not DISABLED, however many DISABLED commands came in between, and uses
\* the closing speed when the new target is greater than that start ratio,
\* the opening speed when it is smaller.
C10_RampStartAndSpeed ==
    ctl_pc \in {"ramp", "ramp_final"} =>
        /\ prev_open_ratio = last_target
        /\ delta = new_open_ratio - last_target
        /\ (new_open_ratio > last_target => speed = close_speed)
        /\ (new_open_ratio < last_target => speed = open_speed)

C10_Witness ==
    /\ variant = "ratio"
    /\ ctl_pc = "ramp"
    /\ gate_state = GATE_DISABLED
    /\ prev_open_ratio = 0
    /\ new_open_ratio = RatioOne
    /\ speed = close_speed
    /\ Len(cmd_writes) = 1

\* C11: a ratio command whose clamped target is within 0.0001 of the
\* remembered previous ratio takes the skip path: from its decision to the
\* next receive no duty cycle is written, and the ready signal is given once.
C11_SkipWritesNothing ==
    [][/\ (/\ ctl_pc = "decide" /\ ctl_pc' # "decide"
           /\ cmd.is_ratio
           /\ ~(variant = "ratio" /\ cmd.ratio = SERVO_GATE_RATIO_DISABLED)
           /\ prev_open_ratio >= 0
           /\ Abs(clamp01(cmd.ratio) - prev_open_ratio) <= Epsilon)
          => (path' = "skipped" /\ pwm_cc' = pwm_cc /\ cmd_writes' = <<>>)
       /\ path = "skipped"
          => /\ pwm_cc' = pwm_cc
             /\ cmd_writes' = <<>>
             /\ ctl_pc' \in {"receive", "track"} => gives' = 1]_vars

C11_Witness ==
    /\ path = "skipped" /\ ctl_pc = "receive" /\ gives = 1
    /\ done_count = 2 /\ prev_open_ratio = 1 /\ cmd_writes = <<>>

\* the timer did not wrap between the start of the ramp and the latest reading
NoWrap == ~Gt32(start_time, stop_time) /\ ~Gt32(start_time, current_time)

\* a sequence of ratios that never moves against the direction from r0 to r1
\* and stays between r0 and r1
MonotoneWithin(w, r0, r1) ==
    /\ \A i \in 1..Len(w) :
         IF r1 > r0 THEN r0 <= w[i] /\ w[i] <= r1 ELSE r1 <= w[i] /\ w[i] <= r0
    /\ \A i \in 1..(Len(w) - 1) :
         IF r1 > r0 THEN w[i] <= w[i + 1] ELSE w[i] >= w[i + 1]

\* C12: in a ramped move from r0 to r1, while the timer has not wrapped, the
\* ratios written are monotone in the direction of travel and lie between r0
\* and r1 (hence in [0, 1]); the last write of the move is exactly r1.
C12_RampMonotone ==
    /\ (ctl_pc \in {"ramp", "ramp_final"} /\ NoWrap)
          => /\ MonotoneWithin(cmd_writes, prev_open_ratio, new_open_ratio)
             /\ \A i \in 1..Len(cmd_writes) : cmd_writes[i] \in 0..RatioOne
    /\ (path = "ramped" /\ ctl_pc \in {"update", "give"})
          => /\ cmd_writes # <<>>
             /\ cmd_writes[Len(cmd_writes)] = new_open_ratio

C12_Witness ==
    /\ path = "ramped" /\ ctl_pc \in {"update", "give"}
    /\ Len(cmd_writes) = 3
    /\ cmd_writes[1] > 0 /\ cmd_writes[1] < cmd_writes[2] /\ cmd_writes[2] < cmd_writes[3]
    /\ cmd_writes[3] = RatioOne

\* a frame without any sign character
NoSign(f) == \A i \in 1..Len(f) : f[i] \notin Signs

\* C13: in the generic read-loop, a newline-terminated frame that holds no
\* digit and no '+' or '-' leaves the stored measurement as it was and does
\* not lead to a give of the ready semaphore.
C13_GenericNoNumberNoPublish ==
    [][(/\ scale_handle = "generic_scale_drv_handle"
        /\ rd_pc = "poll" /\ frame' = <<>>
        /\ NoDigit(frame) /\ NoSign(frame))
         => /\ current_scale_measurement' = current_scale_measurement
            /\ scale_measurement_ready' = scale_measurement_ready
            /\ rd_pc' = "poll"
            /\ gives_since_take' = gives_since_take]_vars

C13_Witness ==
    /\ scale_handle = "generic_scale_drv_handle"
    /\ decode_called /\ complete = <<"x", " ", ".">>
    /\ rd_pc = "poll" /\ current_scale_measurement = 5 * MilliOne
    /\ gives_since_take = 1

\* the first k bytes of a frame hold no digit and no sign
PlainPrefix(f, k) == \A i \in 1..k : f[i] \notin Digits /\ f[i] \notin Signs

\* bytes i..j of a frame are blanks, and there is at least one
Blanks(f, i, j) == i <= j /\ \A n \in i..j : f[n] = " "

\* C14: the generic parser publishes the number of a frame of the form
\* prefix, '+', spaces, number, unit (as in "ST,+   12.345 kg\n"): at the
\* newline the number is stored and the ready semaphore is about to be given.
C14_GenericSignThenSpaces ==
    [][\A i, j \in 1..MaxParseLen :
         (/\ scale_handle = "generic_scale_drv_handle"
          /\ rd_pc = "poll" /\ frame' = <<>>
          /\ i < j /\ j <= Len(frame)
          /\ PlainPrefix(frame, i - 1)
          /\ frame[i] = "+"
          /\ Blanks(frame, i + 1, j - 1)
          /\ frame[j] \in Digits)
           => /\ current_scale_measurement' = Strtof(From(frame, j)).val
              /\ rd_pc' = "give"]_vars

\* a decimal number, optionally signed, that starts with its sign or a digit
ValidDecimal(str) ==
    /\ str # <<>>
    /\ str[1] \in Digits \cup Signs
    /\ Strtof(str).used = Len(str)

\* C15: for every prefix without digit or sign and every valid decimal
\* string s (here: one that starts with its sign or a digit), the generic
\* read-loop fed prefix + s + "\n" publishes the value of s parsed alone.
C15_GenericPrefixIgnored ==
    [][\A k \in 0..MaxFrameLen :
         (/\ scale_handle = "generic_scale_drv_handle"
          /\ rd_pc = "poll" /\ frame' = <<>>
          /\ k < Len(frame)
          /\ PlainPrefix(frame, k)
          /\ ValidDecimal(From(frame, k + 1)))
           => /\ current_scale_measurement' = Strtof(From(frame, k + 1)).val
              /\ rd_pc' = "give"]_vars

\* C16: the Sartorius decode of a frame made of an optional sign, any number
\* of spaces, a decimal number and unit text publishes sign times the number.
C16_SartoriusSignBlanksNumber ==
    [][\A j \in 1..MaxParseLen :
         (/\ scale_handle = "sartorius_scale_handle"
          /\ rd_pc = "poll" /\ frame' = <<>>
          /\ j <= Len(frame)
          /\ frame[j] \in Digits
          /\ \/ Blanks(frame, 1, j - 1) \/ j = 1
             \/ frame[1] \in Signs /\ (Blanks(frame, 2, j - 1) \/ j = 2))
           => /\ current_scale_measurement' =
                    (IF frame[1] = "-" THEN -1 ELSE 1) * Strtof(From(frame, j)).val
              /\ rd_pc' = "give"]_vars

C16_Witness ==
    /\ scale_handle = "sartorius_scale_handle"
    /\ decode_called /\ complete = <<"-", " ", "5", "x">>
    /\ rd_pc = "give"
    /\ current_scale_measurement = -5 * MilliOne

\* C17: once more non-terminator bytes than the buffer holds have arrived
\* without a terminator, the frame buffer is empty: the write cursor is 0.
C17_OverflowLeavesEmptyBuffer ==
    Len(frame) > RxBufferSize => (rx_buffer_idx = 0 /\ buf_index = 0)

\* C18: scale_block_wait_for_next_measurement returns true only after it
\* consumed a pending ready signal, and then its output is the stored
\* measurement; it returns false only from a wait with a finite timeout that
\* found no signal, and then the output is left unwritten.
C18_WaitContract ==
    [][\A c \in Consumers :
         /\ (con_pc[c] = "take" /\ con_pc'[c] = "read")
               => (scale_measurement_ready = 1 /\ scale_measurement_ready' = 0)
         /\ (con_pc[c] # "returned" /\ con_pc'[c] = "returned" /\ con_result'[c])
               => (con_pc[c] = "read" /\ con_out'[c] = current_scale_measurement)
         /\ (con_pc[c] # "returned" /\ con_pc'[c] = "returned" /\ ~con_result'[c])
               => /\ con_pc[c] = "take"
                  /\ con_block_time[c] # 0
                  /\ scale_measurement_ready = 0
                  /\ con_out'[c] = Unwritten]_vars

C18_Witness ==
    \E c \in Consumers :
        /\ con_pc[c] = "returned" /\ ~con_result[c]
        /\ con_block_time[c] # 0 /\ con_out[c] = Unwritten
        /\ last_given = 5 * MilliOne /\ gives_since_take = 0

\* the descriptor each known selector names, as the vendors' drivers declare them
VendorDescriptor ==
    [SCALE_DRIVER_AND_FXI |-> "and_fxi_scale_handle",
     SCALE_DRIVER_STEINBERG_SBS |-> "steinberg_scale_handle",
     SCALE_DRIVER_GNG_JJB |-> "gng_scale_handle",
     SCALE_DRIVER_USSOLID_JFDBS |-> "ussolid_scale_handle",
     SCALE_DRIVER_JM_SCIENCE |-> "jm_science_scale_handle",
     SCALE_DRIVER_CREEDMOOR |-> "creedmoor_scale_handle",
     SCALE_DRIVER_RADWAG_PS_R2 |-> "radwag_ps_r2_scale_handle",
     SCALE_DRIVER_SARTORIUS |-> "sartorius_scale_handle",
     SCALE_DRIVER_GENERIC_DRV |-> "generic_scale_drv_handle"]

\* C19: set_scale_driver leaves a non-null descriptor for every selector: a
\* known selector has its own vendor's descriptor, any other value has the
\* A&D FX-i descriptor; no selector leaves the scale without a driver.
C19_DriverAlwaysSelected ==
    /\ scale_handle # "NULL"
    /\ scale_driver \in DOMAIN VendorDescriptor
          => scale_handle = VendorDescriptor[scale_driver]
    /\ scale_driver \notin DOMAIN VendorDescriptor
          => scale_handle = "and_fxi_scale_handle"

\* an unknown selector has been stored and the A&D FX-i descriptor is active
C19_Witness ==
    /\ scale_driver \in UnknownDrivers
    /\ scale_handle = "and_fxi_scale_handle"

\* C20: a force-zero request while the generic descriptor (which has no
\* force_zero) is active is a no-op: nothing is invoked and the request
\* completes normally.
C20_ForceZeroWithoutHandlerIsNoOp ==
    [][(scale_handle = "generic_scale_drv_handle" /\ zero_outcome' # zero_outcome)
          => zero_outcome' \notin {"fault", "invoked"}]_vars

\* C21: in the ratio controller a ratio command received while the previous
\* ratio is still UNKNOWN writes the duty cycle exactly once, at the clamped
\* target and with no ramp, and once the command is done the previous ratio
\* is that target.
C21_FirstMoveIsImmediate ==
    [][/\ (/\ variant = "ratio" /\ ctl_pc = "decide" /\ ctl_pc' # "decide"
           /\ cmd.ratio # SERVO_GATE_RATIO_DISABLED
           /\ prev_open_ratio = UNKNOWN_RATIO)
          => /\ path' = "first"
             /\ ctl_pc' = "update"
             /\ cmd_writes' = <<clamp01(cmd.ratio)>>
       /\ (variant = "ratio" /\ path = "first" /\ path' = "first")
          => /\ cmd_writes' = cmd_writes
             /\ Len(cmd_writes) = 1
             /\ ctl_pc' \in {"give", "receive"} => prev_open_ratio' = cmd_writes[1]]_vars

C21_Witness ==
    /\ variant = "ratio" /\ path = "first" /\ ctl_pc = "receive"
    /\ done_count = 1
    /\ cmd_writes = <<5000>>
    /\ prev_open_ratio = 5000

\* a target strictly between the two thresholds of the coarse state
MidTravel(r) == r > OpenThreshold /\ r < CloseThreshold

\* C22: after a move of the ratio controller to a mid-travel target the
\* reported coarse state is ambiguous: none of Open, Close and Disabled.
C22_MidTravelStateAmbiguous ==
    (/\ variant = "ratio" /\ ctl_pc = "give"
     /\ path \in {"first", "instant", "ramped"}
     /\ MidTravel(new_open_ratio))
       => gate_state \notin {GATE_OPEN, GATE_CLOSE, GATE_DISABLED}

\* C23: after every move of the ratio controller that is not DISABLED the
\* previous ratio is the clamped target, and the coarse state is Open for a
\* target of at most 0.0001 and Close for a target of at least 0.9999.
C23_StateAfterMove ==
    (variant = "ratio" /\ ctl_pc = "give")
       => /\ new_open_ratio = clamp01(cmd.ratio)
          /\ prev_open_ratio = new_open_ratio
          /\ new_open_ratio <= OpenThreshold => gate_state = GATE_OPEN
          /\ new_open_ratio >= CloseThreshold => gate_state = GATE_CLOSE

C23_Witness ==
    /\ variant = "ratio" /\ ctl_pc = "give"
    /\ path = "ramped"
    /\ cmd.ratio = RatioOne
    /\ prev_open_ratio = RatioOne
    /\ gate_state = GATE_CLOSE

\* time elapsed since the start of the ramp at the reading now, modulo 2^32
Elapsed(now) == ToInt(Sub32(now, start_time))

\* C24: the interpolation loop of a ramp keeps writing interpolated ratios
\* while the elapsed time (now - start, modulo 2^32) is at most the ramp
\* duration, and leaves only when the elapsed time exceeds the duration, for
\* every start value of the 32-bit timer.
C24_RampLastsItsDuration ==
    [][/\ (ctl_pc = "ramp" /\ ctl_pc' = "ramp_final")
          => Elapsed(current_time') > ramp_time_us
       /\ (ctl_pc = "ramp" /\ ctl_pc' = "ramp" /\ current_time' # current_time)
          => Elapsed(current_time') <= ramp_time_us]_vars

\* C25: the duration of a ramp is |delta| / (speed_pct_s / 100) seconds: a
\* full-travel move at 5 percent per second takes 20 seconds.  Compared in
\* milliseconds: |delta| and speed are both in units of 0.0001.
C25_RampDurationFromPercentSpeed ==
    ctl_pc = "ramp" => ramp_time_us \div 1000 = (Abs(delta) * 100 * 1000) \div speed

\* C26: for every configured speed, zero and negative ones included, the
\* duration of a ramp fits the 32-bit counter of microseconds it is stored in.
\* Compared in milliseconds: delta and the clamped speed are in units of 0.0001.
C26_RampTimeFitsCounter ==
    ctl_pc = "ramp" => (Abs(delta) * 1000) \div speed <= MaxUint32Ms

\* a call of scale_write by w is past its take and before its return
Holding(w) == wr_pc[w] \in {"transmit", "give"}

C28_AppliedBaudrateSupported == uart_baudrate \in {4800, 9600, 19200}

\* C29: under fair scheduling every submission with block_wait = true
\* returns, also when several tasks submit blocking commands concurrently.
C29_BlockedSubmitterReturns ==
    \A s \in Submitters : (sub_pc[s] = "wait") ~> (sub_pc[s] = "idle")

\* C30: after every completed command, once a duty cycle has been written,
\* the previous ratio the control task remembers is the ratio of the latest
\* duty-cycle write.
C30_RememberedRatioIsWritten ==
    (ctl_pc = "receive" /\ done_count > 0 /\ last_write # NoTarget)
       => prev_open_ratio = last_write

\* C31: no publish is delivered twice: every successful wait of a caller
\* returns a measurement that was stored after the caller's previous
\* successful wait read the stored measurement.
C31_NoPublishDeliveredTwice ==
    [][\A c \in Consumers :
         (con_pc[c] = "read" /\ con_pc'[c] = "returned" /\ con_result'[c])
            => fresh[c]]_vars

\* C32: in the state-or-ratio controller, whenever the ready signal is given
\* for a state command (Open, Close or Disabled), servo_gate.gate_state
\* already equals the commanded state.
C32_StateSetBeforeReady ==
    [][(variant = "state" /\ ~cmd.is_ratio /\ gives' = gives + 1)
          => (move_ready' = 1 /\ gate_state' = cmd.state)]_vars

\* C33: after the selection of any driver that set_scale_driver maps to its
\* own descriptor, the generic driver included, get_scale_driver_string
\* returns a name, not NULL.
C33_SelectedDriverHasName ==
    (scale_driver \in KnownDrivers /\ scale_handle = VendorDescriptor[scale_driver])
       => get_scale_driver_string # "NULL"

====
